---- MODULE Spec2Model ----
(***************************************************************************)
(* Model of the SMS notification queue of packages/queue: the three job    *)
(* creators, the BullMQ queue "sms-notifications" they add to, the worker  *)
(* processor processSMSJob, the retry policy of defaultQueueOptions and    *)
(* the Salum / Mock providers.                                             *)
(*                                                                         *)
(* The queue backend (BullMQ on Redis) is modelled by what its documented  *)
(* operations do to the job table, the wait list, the prioritized set and  *)
(* the delayed set.  Time is kept as the remaining delay of each delayed   *)
(* job, the remaining life of the limiter key and the time since a        *)
(* process was signalled; data.timestamp (Date.now()) is not part of the  *)
(* model.                                                                  *)
(*                                                                         *)
(* Specifications: Spec (producers and workers), LoadSpec (one worker on  *)
(* a backlog: concurrency and rate limit), ShutdownSpec (termination      *)
(* signals), OutageSpec (the backend lost and found again), and one for   *)
(* each function called directly: NormSpec, SendSpec, FactorySpec,        *)
(* MockSpec, RenderSpec, ConfigSpec.                                      *)
(***************************************************************************)
EXTENDS Integers, Sequences, FiniteSets, TLC

VARIABLES jobs,         \* job table of the queue: sequence of job records
          wait,         \* wait list (FIFO): job ids, head is served next
          prioritized,  \* prioritized set: job ids ordered by priority, FIFO
          inflight,     \* per worker: ids of the jobs its processor is running
          idCounter,    \* the queue's counter for generated job ids
          smsProvider,  \* the provider the worker module created at load
          lastCall,     \* the job creator call that has just returned, and its result
          probe,        \* input / output of a direct call of a pure function
          limiter,      \* the queue's rate limit key: claims counted, ms it still lives
          claimAges,    \* ms since each claim made less than the limiter duration ago
          phase,        \* per worker process: running, closing (signalled) or exited
          elapsed,      \* per worker process: ms since it was signalled (capped)
          backend,      \* whether the queue backend (Redis) can be reached
          unanswered    \* ids of the jobs whose gateway request gets no answer

vars == <<jobs, wait, prioritized, inflight, idCounter, smsProvider, lastCall, probe,
          limiter, claimAges, phase, elapsed, backend, unanswered>>

limiterVars == <<limiter, claimAges>>
shutdownVars == <<phase, elapsed, backend, unanswered>>

------------------------------------------------------------------------------
(* Bounds of the model *)
MaxJobs == 2          \* jobs the queue holds at most
NumWorkers == 2       \* worker instances running against the queue
MaxSeparators == 1    \* separators written into a phone number
MaxElapsed == 1500    \* ms after a signal up to which the wait is measured
GracePeriod == 1000   \* ms a shutdown grace period lasts
Backlog == 12         \* jobs waiting when the worker of the backlog run starts

Workers == 1..NumWorkers

(* Absent optional values (undefined in the source) *)
NoStr == "undefined"
NoNum == -1

------------------------------------------------------------------------------
(* types: SMSJobType *)
SMSJobType == [WELCOME |-> "welcome", OTP |-> "otp", NOTIFICATION |-> "notification"]

SMS_QUEUE_NAME == "sms-notifications"

(* config/queue-options.ts: defaultQueueOptions.defaultJobOptions *)
attempts == 3
backoffDelay == 2000

(* config/queue-options.ts: defaultWorkerOptions.concurrency *)
concurrency == 5

(* config/queue-options.ts: defaultWorkerOptions.limiter { max, duration } *)
limiterMax == 10
limiterDuration == 1000

(* 2^n *)
RECURSIVE Pow2(_)
Pow2(n) == IF n <= 0 THEN 1 ELSE 2 * Pow2(n - 1)

(* backoff type 'exponential': delay * 2^(attemptsMade - 1), attemptsMade *)
(* counting the attempt that just failed                                  *)
exponentialBackoff(attemptsMade) == backoffDelay * Pow2(attemptsMade - 1)

------------------------------------------------------------------------------
(* Inputs of the job creators.  A phone number is a sequence of          *)
(* one-character strings, the form normalizePhoneNumber takes apart.     *)
Phones == {<<"+","2","5","4","7","1","2","3","4","5","6","7","8">>}
PriorityOpts == {NoNum, 2}
DelayOpts == {NoNum, 2000}
JobIdOpts == {NoStr, "welcome-42"}

(* the options of a call: none, or one of priority, delay and jobId *)
JobOptionsSet ==
    {o \in [priority : PriorityOpts, delay : DelayOpts, jobId : JobIdOpts] :
        Cardinality({f \in {"priority", "delay", "jobId"} :
                       o[f] # (IF f = "jobId" THEN NoStr ELSE NoNum)}) <= 1}

(* the texts of a payload and of a message are sequences of characters *)
John == <<"J","o","h","n">>
Code123456 == <<"1","2","3","4","5","6">>
OrderShipped ==
    <<"Y","o","u","r"," ","o","r","d","e","r"," ","h","a","s"," ","s","h",
      "i","p","p","e","d">>

WelcomeParams == [recipient : [phoneNumber : Phones], userName : {John}]
OTPParams == [recipient : [phoneNumber : Phones], code : {Code123456}, expiryMinutes : {10}]
NotificationParams == [recipient : [phoneNumber : Phones], message : {OrderShipped}]

------------------------------------------------------------------------------
(* The queue: lookups *)
JobIndexes == 1..Len(jobs)

IndexesOf(js, id) == {i \in 1..Len(js) : js[i].id = id}

HasJob(js, id) == IndexesOf(js, id) # {}

(* smsQueue.getJob(id): the job stored under the id *)
getJob(js, id) == js[CHOOSE i \in IndexesOf(js, id) : TRUE]

PendingStates == {"waiting", "delayed", "active"}

(* prioritized set: entry goes behind every entry of the same or a more  *)
(* urgent (smaller) priority                                             *)
RECURSIVE insertPrioritized(_, _, _, _)
insertPrioritized(js, zs, id, prio) ==
    IF zs = <<>> THEN <<id>>
    ELSE IF getJob(js, Head(zs)).opts.priority <= prio
         THEN <<Head(zs)>> \o insertPrioritized(js, Tail(zs), id, prio)
         ELSE <<id>> \o zs

(* Queue.add(name, data, opts) of BullMQ: opts are merged over             *)
(* defaultJobOptions; an opts.jobId that names a job already in the queue  *)
(* adds nothing and the call yields that id; otherwise the job is stored   *)
(* under opts.jobId or under the next value of the id counter, in the      *)
(* delayed set when it has a delay, in the prioritized set when it has a   *)
(* priority, else at the end of the wait list.                             *)
newJob(id, name, data, opts) ==
    [id |-> id, name |-> name, data |-> data,
     opts |-> [priority |-> IF opts.priority = NoNum THEN 0 ELSE opts.priority,
               delay |-> IF opts.delay = NoNum THEN 0 ELSE opts.delay,
               attempts |-> attempts],
     state |-> IF opts.delay # NoNum /\ opts.delay > 0 THEN "delayed" ELSE "waiting",
     remaining |-> IF opts.delay # NoNum /\ opts.delay > 0 THEN opts.delay ELSE 0,
     attemptsMade |-> 0,
     stalledCounter |-> 0,
     log |-> <<>>]


(* a queue that adds the job whatever ids it already holds *)
isDuplicate_never(js, opts) == FALSE

(* a queue that looks for the id among the pending jobs only *)
isDuplicate_pendingOnly(js, opts) ==
    /\ opts.jobId # NoStr
    /\ \E i \in 1..Len(js) : js[i].id = opts.jobId /\ js[i].state \in PendingStates

isDuplicate(js, opts) == opts.jobId # NoStr /\ HasJob(js, opts.jobId)

smsQueueAdd(q, name, data, opts) ==
    IF isDuplicate(q.jobs, opts)
    THEN [q EXCEPT !.returned = opts.jobId]
    ELSE LET id == IF opts.jobId # NoStr THEN opts.jobId ELSE ToString(q.idCounter + 1)
             job == newJob(id, name, data, opts)
             js == Append(q.jobs, job)
         IN [jobs |-> js,
             wait |-> IF job.state = "waiting" /\ job.opts.priority = 0
                      THEN Append(q.wait, id) ELSE q.wait,
             prioritized |-> IF job.state = "waiting" /\ job.opts.priority > 0
                             THEN insertPrioritized(js, q.prioritized, id, job.opts.priority)
                             ELSE q.prioritized,
             idCounter |-> IF opts.jobId # NoStr THEN q.idCounter ELSE q.idCounter + 1,
             returned |-> id]

(* crypto.randomUUID(): a fresh identifier, different from every job id *)
randomUUID(q) == "uuid-" \o ToString(q.idCounter + 1)

Queue == [jobs |-> jobs, wait |-> wait, prioritized |-> prioritized,
          idCounter |-> idCounter, returned |-> NoStr]

------------------------------------------------------------------------------
(* jobs/sms: the job creators.  Each builds the job data and the options  *)
(* it hands to smsQueue.add and returns {jobId: job.id, queueName}.       *)
WelcomeJobData(q, params, options) ==
    [type |-> SMSJobType.WELCOME,
     id |-> IF options.jobId # NoStr THEN options.jobId ELSE randomUUID(q),
     recipient |-> params.recipient,
     userName |-> params.userName]

createWelcomeSMSJob(q, params, options) ==
    smsQueueAdd(q, "welcome-sms", WelcomeJobData(q, params, options),
                [priority |-> options.priority, delay |-> options.delay,
                 jobId |-> options.jobId])

OTPJobData(q, params, options) ==
    [type |-> SMSJobType.OTP,
     id |-> IF options.jobId # NoStr THEN options.jobId ELSE randomUUID(q),
     recipient |-> params.recipient,
     code |-> params.code,
     expiryMinutes |-> params.expiryMinutes]

(* options?.priority || 1 : an absent priority and priority 0 both give 1 *)
OTPPriority(options) ==
    IF options.priority = NoNum \/ options.priority = 0 THEN 1 ELSE options.priority

createOTPSMSJob(q, params, options) ==
    smsQueueAdd(q, "otp-sms", OTPJobData(q, params, options),
                [priority |-> OTPPriority(options), delay |-> options.delay,
                 jobId |-> options.jobId])


(* a creator that leaves the message out of the job data *)
NotificationJobData_noMessage(q, params, options) ==
    [type |-> SMSJobType.NOTIFICATION,
     id |-> IF options.jobId # NoStr THEN options.jobId ELSE randomUUID(q),
     recipient |-> params.recipient,
     message |-> <<>>]

NotificationJobData(q, params, options) ==
    [type |-> SMSJobType.NOTIFICATION,
     id |-> IF options.jobId # NoStr THEN options.jobId ELSE randomUUID(q),
     recipient |-> params.recipient,
     message |-> params.message]

createNotificationSMSJob(q, params, options) ==
    smsQueueAdd(q, "notification-sms", NotificationJobData(q, params, options),
                [priority |-> options.priority, delay |-> options.delay,
                 jobId |-> options.jobId])

------------------------------------------------------------------------------
(* templates/sms: the renderers *)
RECURSIVE Text(_)
Text(chars) == IF chars = <<>> THEN "" ELSE Head(chars) \o Text(Tail(chars))

WelcomeLead ==
    <<"W","e","l","c","o","m","e"," ","t","o"," ","o","u","r"," ","p","l",
      "a","t","f","o","r","m",","," ">>
WelcomeTail ==
    <<"!"," ","W","e","'","r","e"," ","e","x","c","i","t","e","d"," ","t",
      "o"," ","h","a","v","e"," ","y","o","u"," ","o","n"," ","b","o","a",
      "r","d","."," ","G","e","t"," ","s","t","a","r","t","e","d"," ","b",
      "y"," ","e","x","p","l","o","r","i","n","g"," ","y","o","u","r"," ",
      "d","a","s","h","b","o","a","r","d",".">>

renderWelcomeSMS(data) ==
    [message |-> WelcomeLead \o data.userName \o WelcomeTail,
     recipient |-> data.recipient]

(* ${n} of a number: its decimal digits, with a minus sign below zero *)
DigitChars == <<"0","1","2","3","4","5","6","7","8","9">>

RECURSIVE Digits(_)
Digits(n) ==
    IF n < 0 THEN <<"-">> \o Digits(0 - n)
    ELSE IF n < 10 THEN <<DigitChars[n + 1]>>
    ELSE Digits(n \div 10) \o <<DigitChars[(n % 10) + 1]>>

OTPLead ==
    <<"Y","o","u","r"," ","v","e","r","i","f","i","c","a","t","i","o","n",
      " ","c","o","d","e"," ","i","s",":"," ">>
OTPMiddle ==
    <<"."," ","T","h","i","s"," ","c","o","d","e"," ","w","i","l","l"," ",
      "e","x","p","i","r","e"," ","i","n"," ">>
OTPTail ==
    <<" ","m","i","n","u","t","e","s","."," ","D","o"," ","n","o","t"," ",
      "s","h","a","r","e"," ","t","h","i","s"," ","c","o","d","e"," ","w",
      "i","t","h"," ","a","n","y","o","n","e",".">>

(* a template that leaves the expiry out *)
otpMessage_noExpiry(code, expiryMinutes) == OTPLead \o code \o OTPTail

otpMessage(code, expiryMinutes) ==
    OTPLead \o code \o OTPMiddle \o Digits(expiryMinutes) \o OTPTail

renderOTPSMS(data) ==
    [message |-> otpMessage(data.code, data.expiryMinutes),
     recipient |-> data.recipient]

(* a renderer that puts a heading before the message *)
renderNotificationSMS_headed(data) ==
    [message |-> <<"N","o","t","e",":"," ">> \o data.message, recipient |-> data.recipient]

renderNotificationSMS(data) ==
    [message |-> data.message, recipient |-> data.recipient]

------------------------------------------------------------------------------
(* providers/sms/salum.provider.ts *)
Separators == {" ", "-", "(", ")"}

startsWith(s, prefix) ==
    Len(s) >= Len(prefix) /\ SubSeq(s, 1, Len(prefix)) = prefix

substring(s, from) == SubSeq(s, from + 1, Len(s))

IsSeparator(c) == c \in Separators

stripPlus(s) == IF startsWith(s, <<"+">>) THEN substring(s, 1) ELSE s


(* a normalizer that leaves the trunk zero in place *)
replaceTrunkZero_kept(s) == s

replaceTrunkZero(s) ==
    IF startsWith(s, <<"0">>) THEN <<"2","5","4">> \o substring(s, 1) ELSE s

(* a normalizer that never adds the country code *)
addCountryCode_never(s) == s

addCountryCode(s) ==
    IF ~startsWith(s, <<"2","5","4">>) /\ Len(s) = 9 THEN <<"2","5","4">> \o s ELSE s

normalizePhoneNumber(phone) ==
    addCountryCode(replaceTrunkZero(stripPlus(SelectSeq(phone, LAMBDA c : ~IsSeparator(c)))))

(* What the gateway can answer to one request: the fetch rejects, or it   *)
(* resolves with an HTTP status and a body that is not JSON, is JSON null *)
(* or is an object with or without a responses list.                      *)
GatewayEntries == [code : {200, 1006},
                   description : {"", "Invalid credentials"},
                   messageid : {NoNum, 42}]

GatewayLists == {<<>>} \cup {<<e>> : e \in GatewayEntries}
                \cup {<<e, f>> : e \in GatewayEntries, f \in GatewayEntries}

GatewayReplies ==
    {[network |-> "rejects", status |-> 0, json |-> "none", responses |-> <<>>]}
    \cup [network : {"ok"}, status : {404, 500}, json : {"none"}, responses : {<<>>}]
    \cup [network : {"ok"}, status : {200}, json : {"invalid", "noList"}, responses : {<<>>}]
    \cup [network : {"ok"}, status : {200}, json : {"object"}, responses : GatewayLists]

(* the replies the workers of the queue model meet *)

GatewayResponses ==
    {[network |-> "rejects", status |-> 0, json |-> "none", responses |-> <<>>]}
    \cup [network : {"ok"}, status : {500}, json : {"none"}, responses : {<<>>}]
    \cup [network : {"ok"}, status : {200}, json : {"invalid", "noList"}, responses : {<<>>}]
    \cup [network : {"ok"}, status : {200}, json : {"object"},
           responses : {<<>>} \cup {<<e>> : e \in [code : {200, 1006},
                                                   description : {"Invalid credentials"},
                                                   messageid : {42}]}]

ok(response) == response.status >= 200 /\ response.status <= 299

Return(v) == [kind |-> "return", value |-> v]
Throw(m) == [kind |-> "throw", message |-> m]

SMSResult(success, messageId, error, provider) ==
    [success |-> success, messageId |-> messageId, error |-> error, provider |-> provider]

(* a reading of the list that takes its last entry *)
firstResult_last(responses) == responses[Len(responses)]

(* data.responses[0] *)
firstResult(responses) == responses[1]

(* the body of the try block of send: lines 42-91 *)
SalumTry(phoneNumber, message, response) ==
    LET mobile == normalizePhoneNumber(phoneNumber)
    IN IF response.network = "rejects" THEN Throw("fetch failed")
       ELSE IF ~ok(response) THEN Throw("HTTP error! status: " \o ToString(response.status))
       ELSE IF response.json = "invalid" THEN Throw("Unexpected token < in JSON")
       ELSE IF response.json = "null" THEN Throw("Cannot read properties of null")
       ELSE IF response.json = "noList" \/ Len(response.responses) = 0
            THEN Return(SMSResult(FALSE, NoStr, "No response from Salum API", "salum"))
       ELSE LET result == firstResult(response.responses)
            IN IF result.code = 200
               THEN Return(SMSResult(TRUE,
                                     IF result.messageid = NoNum THEN NoStr
                                     ELSE ToString(result.messageid),
                                     NoStr, "salum"))
               ELSE Return(SMSResult(FALSE, NoStr,
                                     IF result.description = "" THEN "Unknown error"
                                     ELSE result.description,
                                     "salum"))

(* the catch block of send: lines 92-98 *)

(* a send without the catch block *)
SalumCatch_rethrow(outcome) == outcome

SalumCatch(outcome) ==
    IF outcome.kind = "throw"
    THEN Return(SMSResult(FALSE, NoStr, outcome.message, "salum"))
    ELSE outcome

SalumSend(phoneNumber, message, response) ==
    SalumCatch(SalumTry(phoneNumber, message, response))

(* providers/sms/mock.provider.ts *)
(* `mock-${Date.now()}-${Math.random().toString(36).substring(7)}`: the  *)
(* clock in decimal and what is left of the random number's base-36 text  *)
(* after its seventh character, which is nothing for a short text         *)

(* an id made of the random suffix alone *)
mockMessageId_suffixOnly(now, suffix) == suffix

mockMessageId(now, suffix) == "mock-" \o ToString(now) \o "-" \o suffix

(* MockSMSProvider.send at clock value now, with the random suffix drawn *)
MockSendAt(phoneNumber, message, now, suffix) ==
    Return(SMSResult(TRUE, mockMessageId(now, suffix), NoStr, "mock"))

MockSend(phoneNumber, message) == MockSendAt(phoneNumber, message, 1700000000, "k3j9x")

(* what a send can meet: the Salum gateway answers in one of several     *)
(* ways, the Mock provider calls no gateway                               *)
ResponsesFor(provider) ==
    IF provider = "salum" THEN GatewayResponses
    ELSE {CHOOSE response \in GatewayResponses : TRUE}

(* smsProvider.send of the provider the worker holds *)
ProviderSend(provider, phoneNumber, message, response) ==
    IF provider = "salum" THEN SalumSend(phoneNumber, message, response)
    ELSE MockSend(phoneNumber, message)

------------------------------------------------------------------------------
(* workers/sms.worker.ts: processSMSJob.  The outcome also carries what   *)
(* the provider was asked and what it answered in this run.               *)
NoSend == [called |-> FALSE, success |-> FALSE, phoneNumber |-> <<>>, message |-> <<>>]

(* one call of smsProvider.send: its two arguments and whether it succeeded *)
SendOf(templateResult, success) ==
    [called |-> TRUE, success |-> success,
     phoneNumber |-> templateResult.recipient.phoneNumber,
     message |-> templateResult.message]

renderFor(data) ==
    IF data.type = "welcome" THEN Return(renderWelcomeSMS(data))
    ELSE IF data.type = "otp" THEN Return(renderOTPSMS(data))
    ELSE IF data.type = "notification" THEN Return(renderNotificationSMS(data))
    ELSE Throw("Unknown SMS job type: " \o data.type)


(* a processor that does not look at the result of the send *)
sendFailed_ignored(result) == FALSE

sendFailed(result) == ~result.success

processSMSJob(provider, job, response) ==
    LET rendered == renderFor(job.data)
    IN IF rendered.kind = "throw"
       THEN [kind |-> "throw", message |-> rendered.message, send |-> NoSend]
       ELSE LET templateResult == rendered.value
                sent == ProviderSend(provider, templateResult.recipient.phoneNumber,
                                     templateResult.message, response)
            IN IF sent.kind = "throw"
               THEN [kind |-> "throw", message |-> sent.message,
                     send |-> SendOf(templateResult, FALSE)]
               ELSE IF sendFailed(sent.value)
               THEN [kind |-> "throw",
                     message |-> "SMS send failed: " \o sent.value.error,
                     send |-> SendOf(templateResult, sent.value.success)]
               ELSE [kind |-> "return",
                     value |-> [success |-> TRUE, jobId |-> job.id,
                                messageId |-> sent.value.messageId,
                                provider |-> sent.value.provider],
                     send |-> SendOf(templateResult, sent.value.success)]

------------------------------------------------------------------------------
(* The queue backend: claiming, finishing, retrying, delays *)
setJob(js, id, job) == [i \in 1..Len(js) |-> IF js[i].id = id THEN job ELSE js[i]]

DueJobs(js) == {i \in 1..Len(js) : js[i].state = "delayed" /\ js[i].remaining <= 0}

FirstDue(js) ==
    CHOOSE i \in DueJobs(js) :
        \A k \in DueJobs(js) :
            \/ js[i].remaining < js[k].remaining
            \/ js[i].remaining = js[k].remaining /\ i <= k

(* delayed jobs whose delay has run out go to the wait list or the       *)
(* prioritized set, the one due longest first                            *)
RECURSIVE promoteDelayedJobs(_)
promoteDelayedJobs(q) ==
    IF DueJobs(q.jobs) = {} THEN q
    ELSE LET i == FirstDue(q.jobs)
             job == [q.jobs[i] EXCEPT !.state = "waiting", !.remaining = 0]
             js == [q.jobs EXCEPT ![i] = job]
         IN promoteDelayedJobs(
              [q EXCEPT !.jobs = js,
                        !.wait = IF job.opts.priority = 0 THEN Append(q.wait, job.id)
                                 ELSE q.wait,
                        !.prioritized = IF job.opts.priority > 0
                                        THEN insertPrioritized(js, q.prioritized, job.id,
                                                               job.opts.priority)
                                        ELSE q.prioritized])

hasNext(q) == q.wait # <<>> \/ q.prioritized # <<>>

(* the job a worker is handed: the head of the wait list, and only when   *)
(* the wait list is empty the head of the prioritized set                 *)
nextJobId(q) == IF q.wait # <<>> THEN Head(q.wait) ELSE Head(q.prioritized)

(* the claim takes the job out of the list it waited in *)

(* a claim that leaves the job in the list it waited in *)
removeNext_kept(q) == q

removeNext(q) ==
    IF q.wait # <<>> THEN [q EXCEPT !.wait = Tail(q.wait)]
    ELSE [q EXCEPT !.prioritized = Tail(q.prioritized)]

moveToActive(q) ==
    LET id == nextJobId(q)
        r == removeNext(q)
    IN [r EXCEPT !.jobs = setJob(r.jobs, id, [getJob(r.jobs, id) EXCEPT !.state = "active"]),
                 !.returned = id]

LogEntry(outcome, to, backoff) ==
    [sendCalled |-> outcome.send.called, sendSuccess |-> outcome.send.success,
     sendPhoneNumber |-> outcome.send.phoneNumber, sendMessage |-> outcome.send.message,
     threw |-> outcome.kind = "throw", to |-> to, backoff |-> backoff]

moveToCompleted(job, outcome) ==
    [job EXCEPT !.state = "completed",
                !.attemptsMade = job.attemptsMade + 1,
                !.log = Append(job.log, LogEntry(outcome, "completed", NoNum))]

(* a failed attempt: retried after the backoff delay while attempts are   *)
(* left, else failed for good                                             *)

(* a retry policy that grants one attempt more *)
attemptsLeft_oneMore(job, made) == made <= job.opts.attempts

attemptsLeft(job, made) == made < job.opts.attempts

moveToFailed(job, outcome) ==
    LET made == job.attemptsMade + 1
    IN IF attemptsLeft(job, made)
       THEN [job EXCEPT !.state = "delayed",
                        !.attemptsMade = made,
                        !.remaining = exponentialBackoff(made),
                        !.log = Append(job.log,
                                       LogEntry(outcome, "delayed", exponentialBackoff(made)))]
       ELSE [job EXCEPT !.state = "failed",
                        !.attemptsMade = made,
                        !.log = Append(job.log, LogEntry(outcome, "failed", NoNum))]

(* a worker that fails the job whatever the processor did *)
settle_alwaysFailed(job, outcome) == moveToFailed(job, outcome)

(* the worker settles the job by what the processor did: a returned value *)
(* completes it, a thrown error fails the attempt                         *)
settle(job, outcome) ==
    IF outcome.kind = "return" THEN moveToCompleted(job, outcome)
    ELSE moveToFailed(job, outcome)

PositiveDelays(js) ==
    {js[i].remaining : i \in {k \in 1..Len(js) : js[k].state = "delayed" /\ js[k].remaining > 0}}

Min(S) == CHOOSE x \in S : \A y \in S : x <= y

(* the timers that run: the delays of delayed jobs and the limiter key *)
PendingTimers == PositiveDelays(jobs) \cup ({limiter.ttl} \ {0})

------------------------------------------------------------------------------
(* Worker options (defaultWorkerOptions) as the queue applies them to a   *)
(* claim: the limiter counts claims under a key that is created by the    *)
(* first claim and expires limiterDuration ms later                       *)
NoLimiterKey == [count |-> 0, ttl |-> 0]

(* a worker that takes a job whatever it holds *)
hasFreeSlot_always(held) == TRUE

hasFreeSlot(held) == Cardinality(held) < concurrency

(* a limiter that never holds a claim back *)
rateLimited_never(lim) == FALSE

rateLimited(lim) == lim.ttl > 0 /\ lim.count >= limiterMax

countClaim(lim) ==
    IF lim.ttl = 0 THEN [count |-> 1, ttl |-> limiterDuration]
    ELSE [lim EXCEPT !.count = @ + 1]

expire(lim, d) == IF lim.ttl <= d THEN NoLimiterKey ELSE [lim EXCEPT !.ttl = @ - d]

Recent(age) == age < limiterDuration

aged(ages, d) == SelectSeq([i \in 1..Len(ages) |-> ages[i] + d], Recent)

(* a worker that fetches whatever its phase *)
isRunning_always(p) == TRUE

(* worker.close() makes the worker stop fetching *)
isRunning(p) == p = "running"

(* shutdownWorkers has been called: by a signal handler, or by the       *)
(* handler of an uncaught exception or an unhandled rejection            *)
isClosing(p) == p \in {"closing", "closingOnError"}

(* process.exit ends the process and the runs of its processor *)
isAlive(p) == p = "running" \/ isClosing(p)

------------------------------------------------------------------------------
(* State *)
NoCall == [creator |-> "none"]
NoProbe == [fn |-> "none"]

(* The queue backend as a creator call meets it: reachable, or not, and  *)
(* then smsQueue.add rejects and adds nothing                             *)
Backends == {"reachable", "unreachable"}

ConnectivityError == "connect ECONNREFUSED"

(* a creator that catches the rejection and returns a result without id *)
creatorOutcome_swallowed(reach, r) ==
    Return([jobId |-> IF reach = "unreachable" THEN NoStr ELSE r.returned,
            queueName |-> SMS_QUEUE_NAME])

(* const job = await smsQueue.add(...); return {jobId: job.id, queueName:  *)
(* smsQueue.name}: the creators catch nothing, a rejection of add is the  *)
(* rejection of the creator                                               *)
creatorOutcome(reach, r) ==
    IF reach = "unreachable" THEN Throw(ConnectivityError)
    ELSE Return([jobId |-> r.returned, queueName |-> SMS_QUEUE_NAME])

(* what the caller of a creator has: the call it made and either the     *)
(* returned {jobId, queueName} or the error raised                        *)
Call(creator, params, options, q, outcome) ==
    IF outcome.kind = "throw"
    THEN [creator |-> creator, outcome |-> "throw", error |-> outcome.message]
    ELSE [creator |-> creator, params |-> params, options |-> options,
          prior |-> IF options.jobId # NoStr /\ HasJob(q.jobs, options.jobId)
                    THEN getJob(q.jobs, options.jobId).state ELSE "absent",
          outcome |-> "return",
          jobId |-> outcome.value.jobId, queueName |-> outcome.value.queueName]

Init ==
    /\ jobs = <<>>
    /\ wait = <<>>
    /\ prioritized = <<>>
    /\ inflight = [w \in Workers |-> {}]
    /\ idCounter = 0
    /\ smsProvider \in {"mock", "salum"}
    /\ lastCall = NoCall
    /\ probe = NoProbe
    /\ limiter = NoLimiterKey
    /\ claimAges = <<>>
    /\ phase = [w \in Workers |-> "running"]
    /\ elapsed = [w \in Workers |-> 0]
    /\ backend = "reachable"
    /\ unanswered = {}

Store(r) ==
    /\ jobs' = r.jobs
    /\ wait' = r.wait
    /\ prioritized' = r.prioritized
    /\ idCounter' = r.idCounter

Room(options) == Len(jobs) < MaxJobs \/ isDuplicate(jobs, options)

(* the end of a creator call: r is the queue after smsQueue.add, which    *)
(* the queue becomes unless the backend was unreachable                   *)
Enqueue(creator, params, options, r) ==
    /\ IF backend = "reachable" THEN Store(r)
       ELSE UNCHANGED <<jobs, wait, prioritized, idCounter>>
    /\ lastCall' = Call(creator, params, options, Queue, creatorOutcome(backend, r))

CreateWelcome ==
    \E params \in WelcomeParams, options \in JobOptionsSet :
        /\ Room(options)
        /\ Enqueue("welcome", params, options,
                   createWelcomeSMSJob(Queue, params, options))
        /\ UNCHANGED <<inflight, smsProvider, probe, limiterVars, shutdownVars>>

CreateOTP ==
    \E params \in OTPParams, options \in JobOptionsSet :
        /\ Room(options)
        /\ Enqueue("otp", params, options,
                   createOTPSMSJob(Queue, params, options))
        /\ UNCHANGED <<inflight, smsProvider, probe, limiterVars, shutdownVars>>

CreateNotification ==
    \E params \in NotificationParams, options \in JobOptionsSet :
        /\ Room(options)
        /\ Enqueue("notification", params, options,
                   createNotificationSMSJob(Queue, params, options))
        /\ UNCHANGED <<inflight, smsProvider, probe, limiterVars, shutdownVars>>

(* a producer of another version adds a job of a type this worker does    *)
(* not know, through the exported smsQueue                                *)
ForeignJobData(q) ==
    [type |-> "email", id |-> randomUUID(q),
     recipient |-> [phoneNumber |-> <<"0","7","0","0","0","0","0","0","0","0">>]]

AddForeignJob ==
    /\ backend = "reachable"
    /\ Len(jobs) < MaxJobs
    /\ Store(smsQueueAdd(Queue, "email", ForeignJobData(Queue),
                         [priority |-> NoNum, delay |-> NoNum, jobId |-> NoStr]))
    /\ lastCall' = NoCall
    /\ UNCHANGED <<inflight, smsProvider, probe, limiterVars, shutdownVars>>

(* a running worker with a free slot claims the next job, unless the      *)
(* limiter has counted its maximum in the current period                  *)
GetNextJob(w) ==
    /\ backend = "reachable"
    /\ isRunning(phase[w])
    /\ hasFreeSlot(inflight[w])
    /\ ~rateLimited(limiter)
    /\ LET q == promoteDelayedJobs(Queue)
       IN /\ hasNext(q)
          /\ LET r == moveToActive(q)
             IN /\ Store(r)
                /\ inflight' = [inflight EXCEPT ![w] = @ \cup {r.returned}]
    /\ limiter' = countClaim(limiter)
    /\ claimAges' = Append(claimAges, 0)
    /\ lastCall' = NoCall
    /\ UNCHANGED <<smsProvider, probe, shutdownVars>>

(* createSMSWorker: the listeners of the worker's events.  Each writes a *)
(* line to the console, which is no part of the model; what it returns    *)
(* here is the job as the listener leaves it.                             *)

(* a 'failed' listener that gives the job its attempts back *)
onFailed_resetting(job, err) == [job EXCEPT !.attemptsMade = 0]

onCompleted(job) == job

onFailed(job, err) == job

(* the 'error' listener is handed the error only: the jobs are as before *)
onError(js, err) == js

(* the worker emits 'completed' or 'failed' once it has settled the job *)
emitSettled(job, outcome) ==
    IF outcome.kind = "return" THEN onCompleted(job) ELSE onFailed(job, outcome.message)

(* the processor of worker w, its process alive, runs to its end on a    *)
(* job it holds                                                           *)
ProcessJob(w) ==
    \E id \in inflight[w], response \in ResponsesFor(smsProvider) :
        LET job == getJob(jobs, id)
            outcome == processSMSJob(smsProvider, job, response)
        IN /\ backend = "reachable"
           /\ isAlive(phase[w])
           /\ id \notin unanswered
           /\ jobs' = setJob(jobs, id, emitSettled(settle(job, outcome), outcome))
           /\ inflight' = [inflight EXCEPT ![w] = @ \ {id}]
           /\ lastCall' = NoCall
           /\ UNCHANGED <<wait, prioritized, idCounter, smsProvider, probe, limiterVars,
                         shutdownVars>>

(* d ms pass: delays run down, the limiter key lives d ms less, claims   *)
(* grow older and a signalled process has waited d ms more                *)
PassTime(d) ==
    /\ jobs' = [i \in 1..Len(jobs) |->
                  IF jobs[i].state = "delayed"
                  THEN [jobs[i] EXCEPT !.remaining = @ - d] ELSE jobs[i]]
    /\ limiter' = expire(limiter, d)
    /\ claimAges' = aged(claimAges, d)
    /\ elapsed' = [w \in Workers |-> IF isClosing(phase[w])
                                      THEN Min({elapsed[w] + d, MaxElapsed})
                                      ELSE elapsed[w]]
    /\ lastCall' = NoCall
    /\ UNCHANGED <<wait, prioritized, inflight, idCounter, smsProvider, probe, phase,
                   backend, unanswered>>

(* time passes until the next delay runs out or the limiter key expires *)
AdvanceTime ==
    /\ PendingTimers # {}
    /\ PassTime(Min(PendingTimers))

Next ==
    \/ CreateWelcome
    \/ CreateOTP
    \/ CreateNotification
    \/ AddForeignJob
    \/ \E w \in Workers : GetNextJob(w)
    \/ \E w \in Workers : ProcessJob(w)
    \/ AdvanceTime

Spec == Init /\ [][Next]_vars

------------------------------------------------------------------------------
(* Direct calls of normalizePhoneNumber and of SalumSMSProvider.send *)
Canonical == <<"2","5","4","7","1","2","3","4","5","6","7","8">>

WrittenForms == {<<"0","7","1","2","3","4","5","6","7","8">>,
                 <<"+","2","5","4","7","1","2","3","4","5","6","7","8">>,
                 <<"2","5","4","7","1","2","3","4","5","6","7","8">>,
                 <<"7","1","2","3","4","5","6","7","8">>}

insertAt(s, pos, c) == SubSeq(s, 1, pos) \o <<c>> \o SubSeq(s, pos + 1, Len(s))

(* a number written with up to n spaces, dashes or parentheses in it *)
RECURSIVE WithSeparators(_, _)
WithSeparators(S, n) ==
    IF n = 0 THEN S
    ELSE S \cup WithSeparators(
                  UNION {{insertAt(s, pos, c) : pos \in 0..Len(s), c \in Separators} : s \in S},
                  n - 1)

PhoneInputs == WithSeparators(WrittenForms, MaxSeparators)

QueueIdle ==
    /\ jobs = <<>>
    /\ wait = <<>>
    /\ prioritized = <<>>
    /\ inflight = [w \in Workers |-> {}]
    /\ idCounter = 0
    /\ smsProvider = "salum"
    /\ lastCall = NoCall
    /\ limiter = NoLimiterKey
    /\ claimAges = <<>>
    /\ phase = [w \in Workers |-> "running"]
    /\ elapsed = [w \in Workers |-> 0]
    /\ backend = "reachable"
    /\ unanswered = {}

NormInit ==
    /\ QueueIdle
    /\ probe \in [fn : {"normalizePhoneNumber"}, input : PhoneInputs,
                  output : {<<>>}, done : {FALSE}]

NormalizeCall ==
    /\ probe.fn = "normalizePhoneNumber"
    /\ ~probe.done
    /\ probe' = [probe EXCEPT !.output = normalizePhoneNumber(probe.input), !.done = TRUE]
    /\ UNCHANGED <<jobs, wait, prioritized, inflight, idCounter, smsProvider, lastCall,
                   limiterVars, shutdownVars>>

NormNext == NormalizeCall

NormSpec == NormInit /\ [][NormNext]_vars

Messages == {OrderShipped, <<>>}

SendInit ==
    /\ QueueIdle
    /\ probe \in [fn : {"send"}, phoneNumber : WrittenForms, message : Messages,
                  response : GatewayReplies, output : {Throw("pending")}, done : {FALSE}]

SendCall ==
    /\ probe.fn = "send"
    /\ ~probe.done
    /\ probe' = [probe EXCEPT !.output = SalumSend(probe.phoneNumber, probe.message,
                                                   probe.response),
                              !.done = TRUE]
    /\ UNCHANGED <<jobs, wait, prioritized, inflight, idCounter, smsProvider, lastCall,
                   limiterVars, shutdownVars>>

SendNext == SendCall

SendSpec == SendInit /\ [][SendNext]_vars

------------------------------------------------------------------------------
(* Properties *)
Called == lastCall.creator # "none" /\ lastCall.outcome = "return"

Payload(data) == [f \in DOMAIN data \ {"id"} |-> data[f]]

(* type and payload a creator call submitted *)
Submitted(call) == [type |-> call.creator] @@ call.params

AllSendsFailed(job) ==
    \A k \in 1..Len(job.log) : job.log[k].sendCalled /\ ~job.log[k].sendSuccess

Holders(id) == {w \in Workers : id \in inflight[w]}

(* C1: a creator call with a jobId returns that jobId, on the first call *)
(* and on a call made while a job of that id is waiting, delayed or      *)
(* active; after the latter the queue holds exactly one job of that id.  *)
C1_IdempotentEnqueue ==
    (Called /\ lastCall.options.jobId # NoStr) =>
        /\ lastCall.jobId = lastCall.options.jobId
        /\ lastCall.prior \in PendingStates =>
              Cardinality(IndexesOf(jobs, lastCall.options.jobId)) = 1

C1_Witness ==
    /\ Called
    /\ lastCall.prior = "active"
    /\ lastCall.jobId = "welcome-42"
    /\ Len(jobs) = 2

(* C2 as claimed: after every creator call the job stored under the       *)
(* returned id has the type and the payload the call submitted.           *)
C2_LookupYieldsSubmitted ==
    Called =>
        /\ HasJob(jobs, lastCall.jobId)
        /\ Payload(getJob(jobs, lastCall.jobId).data) = Submitted(lastCall)

(* C2 amended: after a creator call without a jobId, or with a jobId that *)
(* no job of the queue had, the job stored under the returned id has the  *)
(* type and the payload the call submitted.                               *)
C2_LookupYieldsSubmittedUnlessDuplicate ==
    (Called /\ lastCall.prior = "absent") =>
        /\ HasJob(jobs, lastCall.jobId)
        /\ Payload(getJob(jobs, lastCall.jobId).data) = Submitted(lastCall)

C2_Witness ==
    /\ Called
    /\ lastCall.prior = "absent"
    /\ lastCall.creator = "notification"
    /\ Len(jobs) = 2
    /\ jobs[2].id = lastCall.jobId

(* C3: a job whose every send failed has made at most 3 attempts, is      *)
(* failed for good exactly when it has made 3, and a job failed for good  *)
(* never changes again nor is held by a worker.                           *)
C3_ThreeAttemptsThenTerminal ==
    /\ [](\A i \in JobIndexes :
            (AllSendsFailed(jobs[i]) /\ jobs[i].log # <<>>) =>
                /\ Len(jobs[i].log) <= 3
                /\ jobs[i].state = "failed" <=> Len(jobs[i].log) = 3)
    /\ [][\A i \in JobIndexes :
            jobs[i].state = "failed" =>
                /\ jobs'[i] = jobs[i]
                /\ Holders(jobs[i].id)' = {}]_vars

C3_Witness ==
    \E i \in JobIndexes :
        /\ jobs[i].state = "failed"
        /\ AllSendsFailed(jobs[i])
        /\ Len(jobs[i].log) = 3

KnownTypes == {"welcome", "otp", "notification"}

(* C4 as claimed: a job of an unknown type is failed for good after its   *)
(* first attempt and makes no second one.                                 *)
C4_UnknownTypeNotRetried ==
    \A i \in JobIndexes :
        jobs[i].data.type \notin KnownTypes =>
            /\ Len(jobs[i].log) <= 1
            /\ Len(jobs[i].log) = 1 => jobs[i].state = "failed"

(* C5: send returns in every case, and when the fetch rejects, the HTTP   *)
(* status is not a success, the body carries no result or the first       *)
(* result's code is not the success code, it returns success = false with *)
(* a non-empty error.                                                     *)
GatewayFailure(response) ==
    \/ response.network = "rejects"
    \/ ~ok(response)
    \/ response.json # "object"
    \/ response.responses = <<>>
    \/ response.responses[1].code # 200

C5_SendNeverRaises ==
    (probe.fn = "send" /\ probe.done) =>
        /\ probe.output.kind = "return"
        /\ GatewayFailure(probe.response) =>
              /\ probe.output.value.success = FALSE
              /\ probe.output.value.error \notin {NoStr, ""}

C5_Witness ==
    /\ probe.fn = "send"
    /\ probe.done
    /\ probe.response.network = "ok"
    /\ probe.response.status = 500
    /\ probe.output.value.success = FALSE

(* C6: an attempt ended in completed exactly when the send was made and   *)
(* returned success = true; every other attempt ended as a failed one.    *)
C6_CompletedIffSendSucceeded ==
    \A i \in JobIndexes : \A k \in 1..Len(jobs[i].log) :
        LET a == jobs[i].log[k]
        IN /\ a.to = "completed" <=> (a.sendCalled /\ a.sendSuccess)
           /\ a.to # "completed" => a.to \in {"delayed", "failed"}

C6_Witness ==
    \E i \in JobIndexes :
        /\ Len(jobs[i].log) = 2
        /\ jobs[i].log[1].sendCalled /\ ~jobs[i].log[1].sendSuccess
        /\ jobs[i].log[1].to = "delayed"
        /\ jobs[i].log[2].to = "completed"

C8_BackoffTwoFourEight ==
    \A i \in JobIndexes : \A k \in 1..Len(jobs[i].log) :
        (AllSendsFailed(jobs[i]) /\ k <= 3) =>
            /\ jobs[i].log[k].to = "delayed"
            /\ jobs[i].log[k].backoff = 2000 * Pow2(k - 1)

(* an explicit priority is never 1 here, so priority 1 on an OTP job is  *)
(* the one createOTPSMSJob puts in when the call names none              *)
DefaultOTP(job) == job.data.type = "otp" /\ job.opts.priority = 1 /\ job.opts.delay = 0

DefaultOther(job) ==
    job.data.type \in {"welcome", "notification"} /\ job.opts.priority = 0 /\ job.opts.delay = 0

(* C9 as claimed: while an OTP job enqueued without a priority is         *)
(* waiting, no Welcome or Notification job enqueued with default options  *)
(* is claimed.                                                            *)
C9_DefaultOTPServedFirst ==
    [][\A i \in JobIndexes, k \in JobIndexes :
          (DefaultOTP(jobs[i]) /\ jobs[i].state = "waiting" /\ DefaultOther(jobs[k])
           /\ jobs[k].state = "waiting")
          => ~(jobs'[k].state = "active")]_vars

(* C10: each of the four written forms, also with spaces, dashes or       *)
(* parentheses in it, normalizes to 254712345678.                         *)
C10_FourFormsOneCanonical ==
    (probe.fn = "normalizePhoneNumber" /\ probe.done) => probe.output = Canonical

C10_Witness ==
    /\ probe.fn = "normalizePhoneNumber"
    /\ probe.done
    /\ probe.input = <<"0","7","1","2","-","3","4","5","6","7","8">>
    /\ probe.output = Canonical

------------------------------------------------------------------------------
(* providers/sms/factory: createSMSProvider, and the constructor of        *)
(* SalumSMSProvider it calls without a config.  An environment variable is *)
(* a sequence of characters; Absent stands for a variable that is not set. *)
Absent == <<NoStr>>

UpperChars == <<"A","B","C","D","E","F","G","H","I","J","K","L","M",
                "N","O","P","Q","R","S","T","U","V","W","X","Y","Z">>
LowerChars == <<"a","b","c","d","e","f","g","h","i","j","k","l","m",
                "n","o","p","q","r","s","t","u","v","w","x","y","z">>

lowerChar(c) ==
    IF \E i \in 1..26 : UpperChars[i] = c
    THEN LowerChars[CHOOSE i \in 1..26 : UpperChars[i] = c]
    ELSE c

toLowerCase(s) == [i \in 1..Len(s) |-> lowerChar(s[i])]

(* value || fallback: an unset or empty variable gives the fallback *)
orElse(value, fallback) == IF value = Absent \/ value = <<>> THEN fallback ELSE value

(* constructor of SalumSMSProvider (no config argument) *)
SalumConfigOf(env) ==
    [apiKey |-> orElse(env.SALUM_API_KEY, <<>>),
     partnerId |-> orElse(env.SALUM_PARTNER_ID, <<>>),
     shortcode |-> orElse(env.SALUM_SHORTCODE,
                          <<"B","U","R","E","T","I","-","T","E","A">>)]

(* a constructor that asks for the API key only *)
credentialsMissing_keyOnly(config) == config.apiKey = <<>>

credentialsMissing(config) == config.apiKey = <<>> \/ config.partnerId = <<>>

newSalumSMSProvider(env) ==
    IF credentialsMissing(SalumConfigOf(env))
    THEN Throw("Salum SMS provider requires apiKey and partnerId")
    ELSE Return([name |-> "salum", config |-> SalumConfigOf(env)])

newMockSMSProvider == Return([name |-> "mock"])

createSMSProvider(env) ==
    LET provider == toLowerCase(orElse(env.SMS_PROVIDER, <<"m","o","c","k">>))
    IN IF provider = <<"s","a","l","u","m">> THEN newSalumSMSProvider(env)
       ELSE IF provider = <<"m","o","c","k">> THEN newMockSMSProvider
       ELSE newMockSMSProvider

ProviderNames == {Absent, <<>>, <<"m","o","c","k">>, <<"M","O","C","K">>,
                  <<"s","a","l","u","m">>, <<"S","A","L","U","M">>,
                  <<"S","a","l","u","m">>, <<"s","a","l","u","m"," ">>,
                  <<"t","w","i","l","i","o">>}

Credentials == {Absent, <<>>, <<"k","9">>}

Environments == [SMS_PROVIDER : ProviderNames, SALUM_API_KEY : Credentials,
                 SALUM_PARTNER_ID : Credentials,
                 SALUM_SHORTCODE : {Absent, <<"S","H","O","P">>}]

FactoryInit ==
    /\ QueueIdle
    /\ probe \in [fn : {"createSMSProvider"}, env : Environments,
                  output : {Throw("pending")}, done : {FALSE}]

FactoryCall ==
    /\ probe.fn = "createSMSProvider"
    /\ ~probe.done
    /\ probe' = [probe EXCEPT !.output = createSMSProvider(probe.env), !.done = TRUE]
    /\ UNCHANGED <<jobs, wait, prioritized, inflight, idCounter, smsProvider, lastCall,
                   limiterVars, shutdownVars>>

FactoryNext == FactoryCall

FactorySpec == FactoryInit /\ [][FactoryNext]_vars

IsSet(v) == v # Absent /\ v # <<>>

SalumSelected(env) ==
    IsSet(env.SMS_PROVIDER) /\ toLowerCase(env.SMS_PROVIDER) = <<"s","a","l","u","m">>

(* C11: createSMSProvider gives the Mock provider when SMS_PROVIDER is     *)
(* unset, empty or anything but 'salum' in any case of letters; when it    *)
(* is 'salum' it fails exactly when the API key or the partner id is       *)
(* missing and gives the Salum provider otherwise.                         *)
C11_FactorySelection ==
    (probe.fn = "createSMSProvider" /\ probe.done) =>
        LET env == probe.env
            out == probe.output
        IN /\ ~SalumSelected(env) => (out.kind = "return" /\ out.value.name = "mock")
           /\ SalumSelected(env) =>
                IF IsSet(env.SALUM_API_KEY) /\ IsSet(env.SALUM_PARTNER_ID)
                THEN out.kind = "return" /\ out.value.name = "salum"
                ELSE out.kind = "throw"

C11_Witness ==
    /\ probe.fn = "createSMSProvider"
    /\ probe.done
    /\ probe.env.SMS_PROVIDER = <<"S","A","L","U","M">>
    /\ probe.env.SALUM_PARTNER_ID = Absent
    /\ IsSet(probe.env.SALUM_API_KEY)
    /\ probe.output.kind = "throw"

------------------------------------------------------------------------------
(* MockSMSProvider.send as a function of its arguments, the clock and the *)
(* random suffix                                                          *)
ClockValues == {0, 1700000000, 2147483647}
RandomSuffixes == {"", "x", "k3j9x"}

MockInit ==
    /\ QueueIdle
    /\ probe \in [fn : {"mockSend"}, phoneNumber : WrittenForms \cup {<<>>},
                  message : Messages, now : ClockValues, suffix : RandomSuffixes,
                  output : {Throw("pending")}, done : {FALSE}]

MockCall ==
    /\ probe.fn = "mockSend"
    /\ ~probe.done
    /\ probe' = [probe EXCEPT !.output = MockSendAt(probe.phoneNumber, probe.message,
                                                    probe.now, probe.suffix),
                              !.done = TRUE]
    /\ UNCHANGED <<jobs, wait, prioritized, inflight, idCounter, smsProvider, lastCall,
                   limiterVars, shutdownVars>>

MockNext == MockCall

MockSpec == MockInit /\ [][MockNext]_vars

(* C12: for every phone number and message MockSMSProvider.send returns   *)
(* (never throws) a result with success = true, provider 'mock' and a     *)
(* message id that is not the empty string.                               *)
C12_MockAlwaysSucceeds ==
    (probe.fn = "mockSend" /\ probe.done) =>
        /\ probe.output.kind = "return"
        /\ probe.output.value.success = TRUE
        /\ probe.output.value.provider = "mock"
        /\ probe.output.value.messageId # ""
        /\ probe.output.value.messageId # NoStr

C12_Witness ==
    /\ probe.fn = "mockSend"
    /\ probe.done
    /\ probe.phoneNumber = <<>>
    /\ probe.message = <<>>
    /\ probe.suffix = ""
    /\ probe.output.kind = "return"
    /\ probe.output.value.messageId = "mock-0-"

------------------------------------------------------------------------------
NotificationJobs == {i \in JobIndexes : jobs[i].data.type = SMSJobType.NOTIFICATION}

Processed(job) == job.log # <<>>

(* C13: with the Mock provider, a Notification job that a worker has       *)
(* processed is completed after its first run, and in that run the        *)
(* provider was called with exactly the message and the phoneNumber of    *)
(* the job's payload.                                                     *)
C13_NotificationVerbatim ==
    smsProvider = "mock" =>
        \A i \in NotificationJobs :
            Processed(jobs[i]) =>
                /\ jobs[i].state = "completed"
                /\ Len(jobs[i].log) = 1
                /\ jobs[i].log[1].to = "completed"
                /\ jobs[i].log[1].sendCalled
                /\ jobs[i].log[1].sendMessage = jobs[i].data.message
                /\ jobs[i].log[1].sendPhoneNumber = jobs[i].data.recipient.phoneNumber
                /\ jobs[i].data.message \in {p.message : p \in NotificationParams}
                /\ jobs[i].data.recipient \in {p.recipient : p \in NotificationParams}

C13_Witness ==
    /\ smsProvider = "mock"
    /\ \E i \in NotificationJobs :
          /\ jobs[i].state = "completed"
          /\ jobs[i].log[1].sendMessage = OrderShipped
          /\ jobs[i].log[1].sendPhoneNumber
                = <<"+","2","5","4","7","1","2","3","4","5","6","7","8">>

------------------------------------------------------------------------------
(* renderOTPSMS as a function of the job data *)
Codes == {Code123456, <<"0","0","7">>, <<"A","B","1">>, <<>>}
ExpiryValues == {0, 1, 5, 10, 120}

OTPJobDatas ==
    [type : {SMSJobType.OTP}, id : {"1"}, recipient : [phoneNumber : WrittenForms],
     code : Codes, expiryMinutes : ExpiryValues]

RenderInit ==
    /\ QueueIdle
    /\ probe \in [fn : {"renderOTPSMS"}, data : OTPJobDatas,
                  output : {[message |-> <<>>, recipient |-> [phoneNumber |-> <<>>]]},
                  done : {FALSE}]

RenderCall ==
    /\ probe.fn = "renderOTPSMS"
    /\ ~probe.done
    /\ probe' = [probe EXCEPT !.output = renderOTPSMS(probe.data), !.done = TRUE]
    /\ UNCHANGED <<jobs, wait, prioritized, inflight, idCounter, smsProvider, lastCall,
                   limiterVars, shutdownVars>>

RenderNext == RenderCall

RenderSpec == RenderInit /\ [][RenderNext]_vars

(* sub occurs in s as a run of consecutive characters *)
Contains(s, sub) ==
    \E i \in 0..(Len(s) - Len(sub)) : SubSeq(s, i + 1, i + Len(sub)) = sub

(* C14: the message renderOTPSMS produces contains the job's code and the *)
(* decimal text of its expiryMinutes, and the recipient it returns is the *)
(* job's recipient.                                                        *)
C14_OTPMessageCarriesCodeAndExpiry ==
    (probe.fn = "renderOTPSMS" /\ probe.done) =>
        /\ Contains(probe.output.message, probe.data.code)
        /\ Contains(probe.output.message, Digits(probe.data.expiryMinutes))
        /\ probe.output.recipient = probe.data.recipient

C14_Witness ==
    /\ probe.fn = "renderOTPSMS"
    /\ probe.done
    /\ probe.data.code = Code123456
    /\ probe.data.expiryMinutes = 10
    /\ Contains(probe.output.message, <<"1","2","3","4","5","6">>)
    /\ Contains(probe.output.message, <<"1","0">>)
    /\ Len(probe.output.message) = 107

------------------------------------------------------------------------------
(* config/redis: getRedisConfig.  parseInt(text, 10) skips leading blanks, *)
(* takes an optional sign and the digits that follow, and gives NaN when  *)
(* no digit follows.                                                      *)
NaN == [nan |-> TRUE, value |-> 0]

Number(n) == [nan |-> FALSE, value |-> n]

IsDigit(c) == \E d \in 1..10 : DigitChars[d] = c

DigitValue(c) == (CHOOSE d \in 1..10 : DigitChars[d] = c) - 1

RECURSIVE skipBlanks(_)
skipBlanks(s) == IF s # <<>> /\ Head(s) = " " THEN skipBlanks(Tail(s)) ELSE s

(* the value of the leading digits of s, continuing from acc *)
RECURSIVE leadingDigits(_, _)
leadingDigits(s, acc) ==
    IF s = <<>> \/ ~IsDigit(Head(s)) THEN acc
    ELSE leadingDigits(Tail(s), acc * 10 + DigitValue(Head(s)))

parseInt(text) ==
    LET s == skipBlanks(text)
        negative == s # <<>> /\ Head(s) = "-"
        signed == s # <<>> /\ Head(s) \in {"-", "+"}
        body == IF signed THEN Tail(s) ELSE s
    IN IF body = <<>> \/ ~IsDigit(Head(body)) THEN NaN
       ELSE Number(IF negative THEN 0 - leadingDigits(body, 0)
                   ELSE leadingDigits(body, 0))

Localhost == <<"l","o","c","a","l","h","o","s","t">>
Production == <<"p","r","o","d","u","c","t","i","o","n">>
Development == <<"d","e","v","e","l","o","p","m","e","n","t">>

(* a check that is never made *)
isProduction_never(env) == FALSE

(* process.env.NODE_ENV === 'production' *)
isProduction(env) == env.NODE_ENV = Production

invalidPort(port) == port.nan \/ port.value < 1 \/ port.value > 65535

invalidDb(db) == db.nan \/ db.value < 0

getRedisConfig(env) ==
    LET host == orElse(env.REDIS_HOST, Localhost)
        port == parseInt(orElse(env.REDIS_PORT, <<"6","3","7","9">>))
        db == parseInt(orElse(env.REDIS_DB, <<"0">>))
    IN IF isProduction(env) /\ ~IsSet(env.REDIS_HOST)
       THEN Throw("REDIS_HOST environment variable is required in production")
       ELSE IF invalidPort(port) THEN Throw("Invalid REDIS_PORT")
       ELSE IF invalidDb(db) THEN Throw("Invalid REDIS_DB")
       ELSE Return([host |-> host, port |-> port.value, password |-> env.REDIS_PASSWORD,
                    db |-> db.value, maxRetriesPerRequest |-> "null"])

NodeEnvs == {Absent, Development, Production, <<"t","e","s","t">>,
             <<"s","t","a","g","i","n","g">>}
RedisHosts == {Absent, <<>>, <<"r","e","d","i","s",".","l","a","n">>}
GoodPorts == {Absent, <<"6","3","8","0">>, <<" ","6","5","5","3","5">>}
BadPorts == {<<"0">>, <<"6","5","5","3","6">>, <<"a","b","c">>}
GoodDbs == {Absent, <<"2">>}
BadDbs == {<<"-","1">>, <<"x">>}

RedisEnvironments ==
    [NODE_ENV : NodeEnvs, REDIS_HOST : RedisHosts, REDIS_PORT : GoodPorts \cup BadPorts,
     REDIS_DB : GoodDbs \cup BadDbs, REDIS_PASSWORD : {Absent}]

ConfigInit ==
    /\ QueueIdle
    /\ probe \in [fn : {"getRedisConfig"}, env : RedisEnvironments,
                  output : {Throw("pending")}, done : {FALSE}]

ConfigCall ==
    /\ probe.fn = "getRedisConfig"
    /\ ~probe.done
    /\ probe' = [probe EXCEPT !.output = getRedisConfig(probe.env), !.done = TRUE]
    /\ UNCHANGED <<jobs, wait, prioritized, inflight, idCounter, smsProvider, lastCall,
                   limiterVars, shutdownVars>>

ConfigNext == ConfigCall

ConfigSpec == ConfigInit /\ [][ConfigNext]_vars

ConfigDone == probe.fn = "getRedisConfig" /\ probe.done

(* a context that counts as development: NODE_ENV unset, empty or 'development' *)
DevelopmentContext(env) == ~IsSet(env.NODE_ENV) \/ env.NODE_ENV = Development

(* C20 as claimed: with REDIS_HOST unset or empty outside a development   *)
(* context getRedisConfig fails, and the host falls back to localhost in  *)
(* a development context only.                                            *)
C20_FatalOutsideDevelopment ==
    (ConfigDone /\ ~IsSet(probe.env.REDIS_HOST) /\ ~DevelopmentContext(probe.env))
        => probe.output.kind = "throw"

(* C20 amended: with REDIS_HOST unset or empty, getRedisConfig fails when *)
(* NODE_ENV is exactly 'production'; with any other NODE_ENV the host is  *)
(* localhost and the call fails only for a REDIS_PORT outside 1..65535 or *)
(* a REDIS_DB that is no non-negative integer.                            *)
C20_FatalInProductionOnly ==
    (ConfigDone /\ ~IsSet(probe.env.REDIS_HOST)) =>
        LET env == probe.env
            out == probe.output
        IN /\ env.NODE_ENV = Production => out.kind = "throw"
           /\ env.NODE_ENV # Production =>
                /\ (env.REDIS_PORT \in GoodPorts /\ env.REDIS_DB \in GoodDbs)
                      => (out.kind = "return" /\ out.value.host = Localhost)
                /\ (env.REDIS_PORT \in BadPorts \/ env.REDIS_DB \in BadDbs)
                      => out.kind = "throw"

C20_Witness ==
    /\ ConfigDone
    /\ probe.env.NODE_ENV = <<"s","t","a","g","i","n","g">>
    /\ probe.env.REDIS_HOST = Absent
    /\ probe.output.kind = "return"
    /\ probe.output.value.host = Localhost
    /\ probe.output.value.port = 6379

------------------------------------------------------------------------------
(* One worker instance serving a backlog: the queue holds Backlog          *)
(* Notification jobs, added through createNotificationSMSJob without       *)
(* options, before the worker starts; the provider is the Mock.            *)
EmptyQueue == [jobs |-> <<>>, wait |-> <<>>, prioritized |-> <<>>,
               idCounter |-> 0, returned |-> NoStr]

NoOptions == [priority |-> NoNum, delay |-> NoNum, jobId |-> NoStr]

RECURSIVE Backlogged(_)
Backlogged(n) ==
    IF n = 0 THEN EmptyQueue
    ELSE createNotificationSMSJob(Backlogged(n - 1),
                                  CHOOSE p \in NotificationParams : TRUE, NoOptions)

LoadWorker == 1

HalfPeriod == limiterDuration \div 2

LoadInit ==
    /\ jobs = Backlogged(Backlog).jobs
    /\ wait = Backlogged(Backlog).wait
    /\ prioritized = Backlogged(Backlog).prioritized
    /\ idCounter = Backlogged(Backlog).idCounter
    /\ inflight = [w \in Workers |-> {}]
    /\ smsProvider = "mock"
    /\ lastCall = NoCall
    /\ probe = NoProbe
    /\ limiter = NoLimiterKey
    /\ claimAges = <<>>
    /\ phase = [w \in Workers |-> "running"]
    /\ elapsed = [w \in Workers |-> 0]
    /\ backend = "reachable"
    /\ unanswered = {}

(* something still measures time: a delay, the limiter key, the age of a *)
(* claim or the wait of a signalled process                               *)
TimeMatters ==
    \/ PendingTimers # {}
    \/ claimAges # <<>>
    \/ \E w \in Workers : isClosing(phase[w]) /\ elapsed[w] < MaxElapsed

(* half a limiter period passes *)
Tick ==
    /\ TimeMatters
    /\ PassTime(HalfPeriod)

LoadNext ==
    \/ GetNextJob(LoadWorker)
    \/ ProcessJob(LoadWorker)
    \/ Tick

LoadSpec == LoadInit /\ [][LoadNext]_vars

(* C16: a worker instance never has more than 5 jobs in flight at the     *)
(* same time, however many jobs wait.                                     *)
C16_AtMostFiveInFlight ==
    \A w \in Workers : Cardinality(inflight[w]) <= 5

C16_Witness ==
    /\ Cardinality(inflight[LoadWorker]) = 5
    /\ Len(wait) >= 2
    /\ ~rateLimited(limiter)

(* the claims made since the limiter key was created *)
ClaimsInPeriod ==
    IF limiter.ttl = 0 THEN {}
    ELSE {i \in 1..Len(claimAges) : claimAges[i] <= limiterDuration - limiter.ttl}

(* C17 as claimed: at most 10 claims lie within any window of 1000 ms,    *)
(* that is, at no moment were more than 10 claims made less than 1000 ms  *)
(* ago.                                                                    *)
C17_AtMostTenInAnyWindow == Len(claimAges) <= 10

(* C17 amended: at most 10 claims are made in a limiter period, the       *)
(* 1000 ms that follow the first claim made after the period before       *)
(* ended; the limiter holds the count of exactly those claims.            *)
C17_AtMostTenPerLimiterPeriod ==
    /\ Cardinality(ClaimsInPeriod) = limiter.count
    /\ limiter.count <= 10
    /\ limiter.ttl \in 0..1000

C17_Witness ==
    /\ limiter.count = 10
    /\ limiter.ttl > 0
    /\ inflight[LoadWorker] = {}
    /\ Len(wait) >= 1

------------------------------------------------------------------------------
(* The worker process (start-workers): SIGTERM and SIGINT both call        *)
(* shutdownWorkers, which awaits closeSMSWorker (worker.close()) and then *)
(* calls process.exit(0).  worker.close() stops the fetching and resolves *)
(* when the jobs the worker runs have finished.                           *)
Signals == {"SIGTERM", "SIGINT"}

ShutdownInit ==
    /\ jobs = Backlogged(MaxJobs).jobs
    /\ wait = Backlogged(MaxJobs).wait
    /\ prioritized = Backlogged(MaxJobs).prioritized
    /\ idCounter = Backlogged(MaxJobs).idCounter
    /\ inflight = [w \in Workers |-> {}]
    /\ smsProvider \in {"mock", "salum"}
    /\ lastCall = NoCall
    /\ probe = NoProbe
    /\ limiter = NoLimiterKey
    /\ claimAges = <<>>
    /\ phase = [w \in Workers |-> "running"]
    /\ elapsed = [w \in Workers |-> 0]
    /\ backend = "reachable"
    /\ unanswered = {}

(* process.on('SIGTERM' / 'SIGINT'): shutdownWorkers starts; a signal to  *)
(* a process that is closing already starts nothing new                   *)
Signal(w) ==
    \E sig \in Signals :
        /\ phase[w] = "running"
        /\ phase' = [phase EXCEPT ![w] = "closing"]
        /\ lastCall' = NoCall
        /\ UNCHANGED <<jobs, wait, prioritized, inflight, idCounter, smsProvider, probe,
                       limiterVars, elapsed, backend,
                       unanswered>>

(* worker.close() resolves when no job is running, then process.exit(0) *)
closeResolved(held) == held = {}

Exit(w) ==
    /\ isClosing(phase[w])
    /\ closeResolved(inflight[w])
    /\ phase' = [phase EXCEPT ![w] = "exited"]
    /\ lastCall' = NoCall
    /\ UNCHANGED <<jobs, wait, prioritized, inflight, idCounter, smsProvider, probe,
                   limiterVars, elapsed, backend,
                       unanswered>>

(* worker.close() rejects: the catch block calls process.exit(1) at once, *)
(* the jobs the process was running stay active in the queue              *)
ExitOnError(w) ==
    /\ isClosing(phase[w])
    /\ phase' = [phase EXCEPT ![w] = "exitedOnError"]
    /\ lastCall' = NoCall
    /\ UNCHANGED <<jobs, wait, prioritized, inflight, idCounter, smsProvider, probe,
                   limiterVars, elapsed, backend,
                       unanswered>>

ShutdownNext ==
    \/ \E w \in Workers : GetNextJob(w)
    \/ \E w \in Workers : ProcessJob(w)
    \/ \E w \in Workers : Signal(w)
    \/ \E w \in Workers : Exit(w)
    \/ \E w \in Workers : ExitOnError(w)
    \/ Tick

ShutdownSpec == ShutdownInit /\ [][ShutdownNext]_vars

Signalled(w) == phase[w] # "running"

(* the run of job id has ended in this step *)
RunEnded(id) ==
    /\ Len(getJob(jobs', id).log) = Len(getJob(jobs, id).log) + 1
    /\ getJob(jobs', id).state \in {"completed", "delayed", "failed"}

------------------------------------------------------------------------------
(* Producers and workers while the queue backend comes and goes: calls of *)
(* createNotificationSMSJob, two workers on the Salum or the Mock         *)
(* provider, and the connection to the backend lost and found again       *)
BackendChanges ==
    /\ backend' = IF backend = "reachable" THEN "unreachable" ELSE "reachable"
    /\ lastCall' = NoCall
    /\ UNCHANGED <<jobs, wait, prioritized, inflight, idCounter, smsProvider, probe,
                   limiterVars, phase, elapsed, unanswered>>

(* a worker that cannot reach the backend emits 'error' *)
WorkerError(w) ==
    /\ backend = "unreachable"
    /\ isAlive(phase[w])
    /\ jobs' = onError(jobs, ConnectivityError)
    /\ lastCall' = NoCall
    /\ UNCHANGED <<wait, prioritized, inflight, idCounter, smsProvider, probe,
                   limiterVars, shutdownVars>>

OutageNext ==
    \/ CreateNotification
    \/ \E w \in Workers : GetNextJob(w)
    \/ \E w \in Workers : ProcessJob(w)
    \/ \E w \in Workers : WorkerError(w)
    \/ AdvanceTime
    \/ BackendChanges

OutageSpec == Init /\ [][OutageNext]_vars

CallEnded == lastCall.creator # "none"

(* a run of the processor has ended in this step *)
SomeRunEnded ==
    \E i \in 1..Len(jobs) : i <= Len(jobs') /\ Len(jobs'[i].log) > Len(jobs[i].log)

------------------------------------------------------------------------------
(* what the queue does to a job whose run ends, with no listener in play *)
SettledAlone(job) ==
    {settle(job, processSMSJob(smsProvider, job, response)) :
        response \in ResponsesFor(smsProvider)}

Standing(job) == [state |-> job.state, attemptsMade |-> job.attemptsMade, log |-> job.log]

(* C21: the listeners of 'completed', 'failed' and 'error' change no job: *)
(* a job whose run ends is left exactly as the queue settles it, state,   *)
(* attempt count and retry delay included, and a step in which the worker *)
(* only reports an error leaves state, attempt count and log of every job *)
(* as they were.                                                           *)
C21_ListenersChangeNoJob ==
    [][/\ Len(jobs') >= Len(jobs)
       /\ \A i \in 1..Len(jobs) :
            /\ Len(jobs'[i].log) > Len(jobs[i].log) => jobs'[i] \in SettledAlone(jobs[i])
            /\ (backend = "unreachable" /\ backend' = "unreachable")
                  => Standing(jobs'[i]) = Standing(jobs[i])]_vars

(* a job that failed an attempt, was retried and completed: both the      *)
(* 'failed' and the 'completed' listener have run for it                  *)
C21_Witness ==
    \E i \in JobIndexes :
        /\ Len(jobs[i].log) = 2
        /\ jobs[i].log[1].to = "delayed"
        /\ jobs[i].log[2].to = "completed"
        /\ jobs[i].attemptsMade = 2

------------------------------------------------------------------------------
(* C22 as claimed: the jobId a creator call returns is the id stored in   *)
(* the data of the job it enqueued, with or without a jobId option, and   *)
(* no other job of the queue carries that id.                             *)
C22_ReturnedIdIsEnvelopeId ==
    Called =>
        /\ HasJob(jobs, lastCall.jobId)
        /\ getJob(jobs, lastCall.jobId).data.id = lastCall.jobId
        /\ Cardinality({i \in JobIndexes : jobs[i].data.id = lastCall.jobId}) = 1


------------------------------------------------------------------------------
(* Workers that die while they hold jobs.  The worker that runs a job      *)
(* holds its lock; the lock of a dead worker's job runs out, and the       *)
(* stalled jobs check that every live worker runs moves such a job back    *)
(* to the wait list, or fails it once it has stalled more often than       *)
(* maxStalledCount (not set in defaultWorkerOptions: the library's 1).     *)
maxStalledCount == 1

(* the processor's send has gone out, the job is not settled yet *)
sendOnly(job, outcome) ==
    [job EXCEPT !.log = Append(job.log, LogEntry(outcome, "active", NoNum))]

(* the process of worker w dies while it runs jobs: before the send of    *)
(* any of them has come back, or after provider.send has returned for one *)
(* of them and before the job is moved to completed or failed             *)
Crash(w) ==
    /\ isAlive(phase[w])
    /\ inflight[w] # {}
    /\ \/ jobs' = jobs
       \/ \E id \in inflight[w] \ unanswered, response \in ResponsesFor(smsProvider) :
            jobs' = setJob(jobs, id,
                           sendOnly(getJob(jobs, id),
                                    processSMSJob(smsProvider, getJob(jobs, id), response)))
    /\ phase' = [phase EXCEPT ![w] = "crashed"]
    /\ unanswered' = unanswered \ inflight[w]
    /\ lastCall' = NoCall
    /\ UNCHANGED <<wait, prioritized, inflight, idCounter, smsProvider, probe,
                   limiterVars, elapsed, backend>>

(* the jobs that are active with a worker whose process has ended *)
StalledJobs == {id \in UNION {inflight[w] : w \in Workers} :
                  \E w \in Workers : id \in inflight[w] /\ ~isAlive(phase[w])}

(* a stalled job that is put into the delayed set *)
stalledJob_delayed(job) ==
    [job EXCEPT !.state = "delayed", !.stalledCounter = @ + 1]

stalledJob(job) ==
    IF job.stalledCounter + 1 > maxStalledCount
    THEN [job EXCEPT !.state = "failed", !.stalledCounter = @ + 1]
    ELSE [job EXCEPT !.state = "waiting", !.stalledCounter = @ + 1]

(* the stalled jobs check of live worker w finds a stalled job *)
moveStalledJobsToWait(w) ==
    \E id \in StalledJobs :
        LET job == stalledJob(getJob(jobs, id))
        IN /\ backend = "reachable"
           /\ isAlive(phase[w])
           /\ jobs' = setJob(jobs, id, job)
           /\ wait' = IF job.state = "waiting" THEN <<id>> \o wait ELSE wait
           /\ inflight' = [v \in Workers |-> inflight[v] \ {id}]
           /\ lastCall' = NoCall
           /\ UNCHANGED <<prioritized, idCounter, smsProvider, probe, limiterVars,
                          shutdownVars>>

(* two workers on a backlog of notification jobs, either of which may die *)
CrashInit ==
    /\ jobs = Backlogged(MaxJobs).jobs
    /\ wait = Backlogged(MaxJobs).wait
    /\ prioritized = Backlogged(MaxJobs).prioritized
    /\ idCounter = Backlogged(MaxJobs).idCounter
    /\ inflight = [w \in Workers |-> {}]
    /\ smsProvider \in {"mock", "salum"}
    /\ lastCall = NoCall
    /\ probe = NoProbe
    /\ limiter = NoLimiterKey
    /\ claimAges = <<>>
    /\ phase = [w \in Workers |-> "running"]
    /\ elapsed = [w \in Workers |-> 0]
    /\ backend = "reachable"
    /\ unanswered = {}

CrashNext ==
    \/ \E w \in Workers : GetNextJob(w)
    \/ \E w \in Workers : ProcessJob(w)
    \/ \E w \in Workers : Crash(w)
    \/ \E w \in Workers : moveStalledJobsToWait(w)
    \/ AdvanceTime

CrashSpec == CrashInit /\ [][CrashNext]_vars

(* the states the claim names: Waiting, Active, retry-pending, Completed, *)
(* terminal-failed                                                        *)
SentOK(entry) == entry.sendCalled /\ entry.sendSuccess

LastEntry(job) == job.log[Len(job.log)]

(* the job went from state a to state b in this step *)
Moved(i, a, b) == jobs[i].state = a /\ jobs'[i].state = b

Settled(i) == Len(jobs'[i].log) = Len(jobs[i].log) + 1

(* the moves of the claim; a delay that has run out takes the job to      *)
(* Waiting and the claim that finds it so may take it on to Active        *)
ClaimedMove(i) ==
    \/ Moved(i, "waiting", "active")
    \/ /\ Moved(i, "active", "completed")
       /\ Settled(i) /\ SentOK(LastEntry(jobs'[i]))
    \/ /\ Moved(i, "active", "delayed")
       /\ Settled(i) /\ ~SentOK(LastEntry(jobs'[i]))
       /\ jobs'[i].attemptsMade < attempts
    \/ /\ jobs[i].state = "delayed" /\ jobs[i].remaining <= 0
       /\ jobs'[i].state \in {"waiting", "active"}
    \/ /\ Moved(i, "active", "failed")
       /\ Settled(i) /\ ~SentOK(LastEntry(jobs'[i]))
       /\ jobs'[i].attemptsMade = attempts

(* the moves of a job whose worker has died *)
StalledMove(i) ==
    /\ jobs[i].id \in StalledJobs
    /\ jobs'[i].stalledCounter = jobs[i].stalledCounter + 1
    /\ \/ Moved(i, "active", "waiting") /\ jobs[i].stalledCounter < maxStalledCount
       \/ Moved(i, "active", "failed") /\ jobs[i].stalledCounter >= maxStalledCount

(* C23 as claimed: a job changes its state only by one of the five moves  *)
(* Waiting to Active, Active to Completed on a successful send, Active to *)
(* retry-pending on a failed attempt with attempts left, retry-pending to *)
(* Waiting when the backoff has elapsed, Active to terminal-failed on a   *)
(* failed attempt with none left; and no job makes more than 3 attempts.  *)
C23_OnlyTheFiveTransitions ==
    /\ [](\A i \in JobIndexes : jobs[i].attemptsMade <= attempts)
    /\ [][\A i \in JobIndexes :
            jobs'[i].state # jobs[i].state => ClaimedMove(i)]_vars

(* C23 amended: a job changes its state only by one of the five moves or, *)
(* when the worker that held it has died, by the stalled jobs check, from *)
(* Active back to Waiting the first time and to terminal-failed after;    *)
(* Completed and terminal-failed are never left, and no job makes more    *)
(* than 3 attempts.                                                       *)
C23_TransitionsWithStallRecovery ==
    /\ [](\A i \in JobIndexes : jobs[i].attemptsMade <= attempts)
    /\ [][\A i \in JobIndexes :
            jobs'[i].state # jobs[i].state => ClaimedMove(i) \/ StalledMove(i)]_vars

(* a job that stalled, was claimed again and failed its third attempt *)
C23_Witness ==
    \E i \in JobIndexes :
        /\ jobs[i].state = "failed"
        /\ jobs[i].attemptsMade = attempts
        /\ jobs[i].stalledCounter = 1


------------------------------------------------------------------------------
(* the reply r differs from reply s in nothing but the entries of the     *)
(* result list after the first                                            *)
SameButLaterEntries(r, s) ==
    /\ r.network = s.network /\ r.status = s.status /\ r.json = s.json
    /\ (r.responses = <<>>) = (s.responses = <<>>)
    /\ r.responses # <<>> => r.responses[1] = s.responses[1]

FirstEntryAccepted(response) ==
    /\ response.network = "ok"
    /\ ok(response)
    /\ response.json = "object"
    /\ response.responses # <<>>
    /\ response.responses[1].code = 200

(* C24: send returns success = true exactly when the HTTP response is ok, *)
(* the result list is there and not empty and its first entry has code    *)
(* 200; a reply that differs only in the entries after the first gives    *)
(* the same result.                                                       *)
C24_SuccessIffFirstEntryAccepted ==
    (probe.fn = "send" /\ probe.done) =>
        /\ probe.output.kind = "return"
        /\ probe.output.value.success = FirstEntryAccepted(probe.response)
        /\ \A r \in GatewayReplies :
             SameButLaterEntries(r, probe.response) =>
                 SalumSend(probe.phoneNumber, probe.message, r) = probe.output

(* a first entry of code 200 followed by an entry of another code *)
C24_Witness ==
    /\ probe.fn = "send"
    /\ probe.done
    /\ Len(probe.response.responses) = 2
    /\ probe.response.responses[1].code = 200
    /\ probe.response.responses[2].code = 1006
    /\ probe.output.value.success = TRUE


------------------------------------------------------------------------------
(* Direct calls of the three job creators on an empty queue, with every   *)
(* combination of the options                                             *)
CreatorNames == {"welcome", "otp", "notification"}

AllJobOptions == [priority : {NoNum, 0, 1, 2}, delay : {NoNum, 0, 2000},
                  jobId : JobIdOpts]

createWith(creator, options) ==
    IF creator = "welcome"
    THEN createWelcomeSMSJob(EmptyQueue, CHOOSE p \in WelcomeParams : TRUE, options)
    ELSE IF creator = "otp"
    THEN createOTPSMSJob(EmptyQueue, CHOOSE p \in OTPParams : TRUE, options)
    ELSE createNotificationSMSJob(EmptyQueue, CHOOSE p \in NotificationParams : TRUE, options)

OptionsInit ==
    /\ QueueIdle
    /\ probe \in [fn : {"create"}, creator : CreatorNames, options : AllJobOptions,
                  output : {EmptyQueue}, done : {FALSE}]

OptionsCall ==
    /\ probe.fn = "create"
    /\ ~probe.done
    /\ probe' = [probe EXCEPT !.output = createWith(probe.creator, probe.options),
                              !.done = TRUE]
    /\ UNCHANGED <<jobs, wait, prioritized, inflight, idCounter, smsProvider, lastCall,
                   limiterVars, shutdownVars>>

OptionsNext == OptionsCall

OptionsSpec == OptionsInit /\ [][OptionsNext]_vars

(* the job the call has added *)
Enqueued == probe.output.jobs[1]

(* C25: the job is enqueued with the priority and the delay of the        *)
(* options, priority 0 included; without a priority an OTP job gets       *)
(* priority 1 and a welcome or notification job none (0 in the job's      *)
(* options); without a delay the job has none.                            *)
C25_OptionsPassedThrough ==
    (probe.fn = "create" /\ probe.done) =>
        /\ Enqueued.opts.priority =
             IF probe.options.priority # NoNum THEN probe.options.priority
             ELSE IF probe.creator = "otp" THEN 1 ELSE 0
        /\ Enqueued.opts.delay =
             IF probe.options.delay # NoNum THEN probe.options.delay ELSE 0


------------------------------------------------------------------------------
(* normalizePhoneNumber on any text: the supported forms and texts that   *)
(* are no Kenyan number in one of them                                    *)
OtherPhoneInputs ==
    {<<>>,
     <<"1","2","3","4","5">>,
     <<"0","7","1","2">>,
     <<"+","2","5","5","7","1","2","3","4","5","6","7","8">>,
     <<"0","0","2","5","4","7","1","2","3","4","5","6","7","8">>,
     <<"+","+","2","5","4","7","1","2","3","4","5","6","7","8">>,
     <<"2","5","4","1","2","3","4","5","6">>,
     <<"7","1","2","3","4","5","6","7","8","9">>,
     <<"7","1","2",".","3","4","5",".","6","7","8">>,
     <<"a","b","c">>}

AnyPhoneInputs == PhoneInputs \cup OtherPhoneInputs

NormAnyInit ==
    /\ QueueIdle
    /\ probe \in [fn : {"normalizeAny"}, input : AnyPhoneInputs,
                  output : {<<>>}, done : {FALSE}]

NormalizeAnyCall ==
    /\ probe.fn = "normalizeAny"
    /\ ~probe.done
    /\ probe' = [probe EXCEPT !.output = normalizePhoneNumber(probe.input), !.done = TRUE]
    /\ UNCHANGED <<jobs, wait, prioritized, inflight, idCounter, smsProvider, lastCall,
                   limiterVars, shutdownVars>>

NormAnyNext == NormalizeAnyCall

NormAnySpec == NormAnyInit /\ [][NormAnyNext]_vars

AllDigits(s) == \A i \in 1..Len(s) : IsDigit(s[i])

(* 254 followed by 9 digits *)
KenyanInternational(s) ==
    /\ Len(s) = 12
    /\ startsWith(s, <<"2","5","4">>)
    /\ AllDigits(s)

WithoutSeparators(s) == SelectSeq(s, LAMBDA c : ~IsSeparator(c))

(* a Kenyan number written as 0 and 9 digits, as +254 or 254 and 9        *)
(* digits, or as the 9 digits alone, with separators or without           *)
InSupportedForm(phone) ==
    LET d == WithoutSeparators(phone)
    IN \/ Len(d) = 10 /\ startsWith(d, <<"0">>) /\ AllDigits(d)
       \/ Len(d) = 13 /\ startsWith(d, <<"+","2","5","4">>) /\ AllDigits(substring(d, 1))
       \/ Len(d) = 12 /\ startsWith(d, <<"2","5","4">>) /\ AllDigits(d)
       \/ /\ Len(d) = 9 /\ AllDigits(d)
          /\ ~startsWith(d, <<"0">>) /\ ~startsWith(d, <<"2","5","4">>)

NormalizedAny == probe.fn = "normalizeAny" /\ probe.done

(* C26 as claimed: whatever the input, the result is 254 followed by 9    *)
(* digits.                                                                *)
C26_AlwaysKenyanInternational ==
    NormalizedAny => KenyanInternational(probe.output)

(* C26 amended: an input in one of the four supported forms gives 254     *)
(* followed by 9 digits; every result is free of spaces, dashes and       *)
(* parentheses and does not start with 0.                                 *)
C26_KenyanInternationalForSupportedForms ==
    NormalizedAny =>
        /\ InSupportedForm(probe.input) => KenyanInternational(probe.output)
        /\ \A i \in 1..Len(probe.output) : ~IsSeparator(probe.output[i])
        /\ ~startsWith(probe.output, <<"0">>)

(* the 9 digits alone, with a dash in them, got the country code *)
C26_Witness ==
    /\ NormalizedAny
    /\ probe.input = <<"7","1","2","-","3","4","5","6","7","8">>
    /\ probe.output = Canonical


------------------------------------------------------------------------------
(* a creator call with a jobId has just returned *)
CalledWithJobId == Called /\ lastCall.options.jobId # NoStr

FreshJob(job) == job.state \in {"waiting", "delayed"} /\ job.attemptsMade = 0 /\ job.log = <<>>

(* C27 as claimed: a call whose jobId matches no waiting, delayed or      *)
(* active job adds a new job, also when a completed or failed job of that *)
(* id is still held.                                                      *)
C27_DedupAgainstPendingOnly ==
    (CalledWithJobId /\ lastCall.prior \notin PendingStates) =>
        \E i \in JobIndexes : jobs[i].id = lastCall.options.jobId /\ FreshJob(jobs[i])

(* C27 amended: a call whose jobId matches a job the queue holds, be it   *)
(* waiting, delayed, active, completed or failed, adds nothing: the one   *)
(* job of that id is in the state it was in; only a call whose jobId      *)
(* matches no job adds a new one.                                         *)
C27_DedupAgainstEveryHeldJob ==
    CalledWithJobId =>
        /\ Cardinality(IndexesOf(jobs, lastCall.options.jobId)) = 1
        /\ lastCall.prior # "absent" =>
              getJob(jobs, lastCall.options.jobId).state = lastCall.prior
        /\ lastCall.prior = "absent" => FreshJob(getJob(jobs, lastCall.options.jobId))

(* the call came when the job of that id had completed *)
C27_Witness ==
    /\ CalledWithJobId
    /\ lastCall.prior = "completed"
    /\ getJob(jobs, "welcome-42").state = "completed"
    /\ Len(getJob(jobs, "welcome-42").log) = 1


------------------------------------------------------------------------------
(* A gateway that accepts the request and never answers.  send awaits     *)
(* fetch(apiUrl, {method, headers, body}): no timeout and no AbortSignal  *)
(* is passed, and processSMSJob awaits send the same way, so the run of   *)
(* the job stays pending; its worker is alive and keeps the job's lock.   *)
NeverAnswers(w) ==
    \E id \in inflight[w] \ unanswered :
        /\ smsProvider = "salum"
        /\ isAlive(phase[w])
        /\ unanswered' = unanswered \cup {id}
        /\ lastCall' = NoCall
        /\ UNCHANGED <<jobs, wait, prioritized, inflight, idCounter, smsProvider, probe,
                       limiterVars, phase, elapsed, backend>>

HangNext ==
    \/ \E w \in Workers : GetNextJob(w)
    \/ \E w \in Workers : ProcessJob(w)
    \/ \E w \in Workers : NeverAnswers(w)
    \/ AdvanceTime

(* a processor whose send is answered runs to its end *)
HangFairness == \A w \in Workers : WF_vars(ProcessJob(w))

HangSpec == CrashInit /\ [][HangNext]_vars /\ HangFairness

(* C28: a job that is active is later not active: completed, delayed for  *)
(* a retry or failed.                                                     *)
C28_ActiveJobsLeaveActive ==
    \A i \in 1..MaxJobs :
        (Len(jobs) >= i /\ jobs[i].state = "active")
            ~> (Len(jobs) >= i /\ jobs[i].state # "active")


------------------------------------------------------------------------------
(* the attempts of the job in which the provider returned success *)
SuccessfulSends(job) == {k \in 1..Len(job.log) : SentOK(job.log[k])}

(* the runs of the job that ended with the death of the worker *)
LostRuns(job) == {k \in 1..Len(job.log) : job.log[k].to = "active"}

(* C29 as claimed: over the whole life of a job the provider returns a    *)
(* successful send at most once, a worker dying after the send included.  *)
C29_AtMostOneSuccessfulSend ==
    \A i \in JobIndexes : Cardinality(SuccessfulSends(jobs[i])) <= 1

(* C29 amended: a successful send whose worker lived to report it is the  *)
(* last run of the job and completes it, so retries and other workers add *)
(* no second one; only a run lost with its worker after a successful send *)
(* is followed by further sends, one more success for each such run at    *)
(* most.                                                                  *)
C29_OneSuccessfulSendUnlessRunLost ==
    \A i \in JobIndexes :
        /\ \A k \in SuccessfulSends(jobs[i]) \ LostRuns(jobs[i]) :
              k = Len(jobs[i].log) /\ jobs[i].state = "completed"
        /\ Cardinality(SuccessfulSends(jobs[i])) <=
              1 + Cardinality(SuccessfulSends(jobs[i]) \cap LostRuns(jobs[i]))

(* sent with success by a worker that died, released, sent again *)
C29_Witness ==
    \E i \in JobIndexes :
        /\ Len(jobs[i].log) = 2
        /\ SentOK(jobs[i].log[1]) /\ jobs[i].log[1].to = "active"
        /\ SentOK(jobs[i].log[2]) /\ jobs[i].log[2].to = "completed"
        /\ jobs[i].stalledCounter = 1


------------------------------------------------------------------------------
(* process.on('uncaughtException') and process.on('unhandledRejection'):  *)
(* both log the error and call shutdownWorkers(), the function the signal *)
(* handlers call, which ends in process.exit(0) when closeSMSWorker       *)
(* resolves and in process.exit(1) when it rejects.                       *)
Faults == {"uncaughtException", "unhandledRejection"}

UncaughtError(w) ==
    \E fault \in Faults :
        /\ phase[w] = "running"
        /\ phase' = [phase EXCEPT ![w] = "closingOnError"]
        /\ lastCall' = NoCall
        /\ UNCHANGED <<jobs, wait, prioritized, inflight, idCounter, smsProvider, probe,
                       limiterVars, elapsed, backend, unanswered>>

FaultNext ==
    \/ \E w \in Workers : GetNextJob(w)
    \/ \E w \in Workers : ProcessJob(w)
    \/ \E w \in Workers : Signal(w)
    \/ \E w \in Workers : UncaughtError(w)
    \/ \E w \in Workers : Exit(w)
    \/ \E w \in Workers : ExitOnError(w)

FaultSpec == ShutdownInit /\ [][FaultNext]_vars

(* C30: a process that shuts down because of an uncaught exception or an  *)
(* unhandled rejection does not exit with code 0; a process exits with    *)
(* code 0 only from a shutdown that a signal started and whose            *)
(* worker.close() resolved.                                               *)
C30_ExitZeroOnlyAfterSignal ==
    [][\A w \in Workers :
         (phase[w] # "exited" /\ phase'[w] = "exited") =>
             /\ phase[w] = "closing"
             /\ closeResolved(inflight[w])]_vars

====
